---- MODULE Spec2Model ----
(***************************************************************************)
(* Model of juanmatias/external-dns: the Shaman DNS provider (package      *)
(* shaman, src/unnamed/part_000) with Domains(), Records() and             *)
(* ApplyChanges() and the remote Shaman service as the environment, and    *)
(* the file source (src/source/sourcefile.go) with NewFileSource() and     *)
(* Endpoints() and the file system as the environment.                     *)
(*                                                                         *)
(* Every exported operation is synchronous and runs to completion, so each *)
(* is one action.  An action leaves in ret/calls/plans/returnedEndpoints   *)
(* what the operation returned, the remote calls it issued (in order) and, *)
(* for ApplyChanges, the working record list of every planned domain after *)
(* each step.                                                              *)
(***************************************************************************)
EXTENDS Integers, Sequences, FiniteSets, TLC

\* ------------------------------------------------------------------ bounds

MaxTargets == 1      \* targets of one endpoint
MaxEndpoints == 2    \* endpoints of one ApplyChanges call, over its three lists
MaxRemoteRecs == 2   \* records of the remote service, over its domains, in the initial state
MaxFaults == 1       \* remote calls that fail during one operation
MaxOps == 1          \* operations of the provider in one behaviour

\* ------------------------------------------------------- program constants

defaultShamanRecordTTL == 60
defaultShamanRecordClass == "IN"
shamanCreate == "CREATE"
shamanDelete == "DELETE"
shamanUpdate == "UPDATE"

\* shaman.DNSRecord.TTL is a uint8: the conversion uint8(ttl) keeps 8 bits.
TTLBits == 8
uint8(n) == n % (2 ^ TTLBits)

\* ------------------------------------------------------------ value sets

DomainNames == {"d1", "d2"}
Addresses == {"x", "y"}
RecordTypes == {"A"}
\* endpoint.TTL values of the endpoints handed to ApplyChanges: 0 is "not
\* configured"
EndpointTTLs == {0}

\* Records the remote service may hold before the provider ever ran; two of
\* them have the same type, class and address and different TTLs.
RemoteRecs ==
    { [TTL |-> 60, Class |-> "IN", Type |-> "A", Address |-> "x"],
      [TTL |-> 30, Class |-> "IN", Type |-> "A", Address |-> "x"] }

SeqsUpTo(S, n) == UNION { [1..k -> S] : k \in 0..n }

Range(s) == { s[i] : i \in 1..Len(s) }

\* All orders (sequences without repetition) of the finite set S.
RECURSIVE Perms(_)
Perms(S) ==
    IF S = {} THEN { <<>> }
    ELSE UNION { { <<e>> \o p : p \in Perms(S \ {e}) } : e \in S }

\* endpoint.Endpoint, as far as the provider reads it
Endpoints ==
    [ DNSName : DomainNames, RecordType : RecordTypes,
      Targets : SeqsUpTo(Addresses, MaxTargets) \ { <<>> }, RecordTTL : EndpointTTLs ]

\* plan.Changes values: every way to cut a sequence of at most n endpoints
\* of E into the lists Create, UpdateNew and Delete.
InputsOf(E, n) ==
    UNION { { [ Create |-> SubSeq(eps, 1, c[1]), UpdateNew |-> SubSeq(eps, c[1] + 1, c[2]),
                Delete |-> SubSeq(eps, c[2] + 1, Len(eps)) ] :
              c \in { k \in (0..Len(eps)) \X (0..Len(eps)) : k[1] <= k[2] } } :
            eps \in SeqsUpTo(E, n) }

\* plan.Changes: the three endpoint lists ApplyChanges reads
ChangeInputs == InputsOf(Endpoints, MaxEndpoints)

\* -------------------------------------------------------------- the state

VARIABLES
    remote,        \* the remote service: sequence of [Domain, Records]
    domainFilter,  \* ShamanProvider.domainFilter: set of domain names ({}: none configured)
    DryRun,        \* ShamanProvider.DryRun
    op,            \* last operation: "none", "Domains", "ApplyChanges"
    input,         \* its arguments (plan.Changes), or the empty record lists
    before,        \* the remote service when it started
    ret,           \* what it returned: [err, domains]
    calls,         \* the remote calls it issued, in order
    plans,         \* ApplyChanges: per planned domain, the working list after each step
    combined,      \* the changes newShamanChanges returned
    returnedEndpoints, \* the endpoints the operation returned
    file,          \* the file system at the path the file source is configured with
    source,        \* what NewFileSource returned
    ops            \* number of operations so far

vars == << remote, domainFilter, DryRun, op, input, before, ret, calls, plans, combined, returnedEndpoints, file, source, ops >>

NoInput == [ Create |-> <<>>, UpdateNew |-> <<>>, Delete |-> <<>> ]

\* The provider neither reads a file nor has a file source.
NoContent == [ kind |-> "empty", items |-> <<>> ]
NoFile == [ kind |-> "absent", content |-> NoContent ]
NoSource == [ nil |-> TRUE, dnsNameBase |-> "", fileName |-> "" ]

\* ------------------------------------------------------ the remote service

RemoteDomainNames(r) == [ i \in 1..Len(r) |-> r[i].Domain ]

RemoteHas(r, d) == \E i \in 1..Len(r) : r[i].Domain = d

\* GetRecords(domainName): the records the service holds for the domain
RemoteRecords(r, d) ==
    IF RemoteHas(r, d)
    THEN r[CHOOSE i \in 1..Len(r) : r[i].Domain = d].Records
    ELSE <<>>

\* ReplaceDomainRecords(domainName, records) on the service
RemoteReplace(r, d, recs) ==
    IF RemoteHas(r, d)
    THEN [ i \in 1..Len(r) |->
             IF r[i].Domain = d THEN [ Domain |-> d, Records |-> recs ] ELSE r[i] ]
    ELSE Append(r, [ Domain |-> d, Records |-> recs ])

\* DeleteDomain(domainName) on the service
RemoteDelete(r, d) == SelectSeq(r, LAMBDA e : e.Domain # d)

\* The remote calls that may fail during one operation.
FaultPoints ==
    { <<"GetDomains", "">> }
    \cup { <<"GetRecords", d>> : d \in DomainNames }
    \cup { <<"Mutate", d>> : d \in DomainNames }

FaultSets == { F \in SUBSET FaultPoints : Cardinality(F) <= MaxFaults }

\* ---------------------------------------------------------------- Domains

\* endpoint.DomainFilter.Match: no filter configured matches every domain
Match(filter, d) == filter = {} \/ d \in filter

\* The loop of Domains() without the filter
RECURSIVE DomainsLoopNoFilter(_, _, _)
DomainsLoopNoFilter(filter, res, result) ==
    IF res = <<>> THEN result
    ELSE DomainsLoopNoFilter(filter, Tail(res), Append(result, Head(res)))

\* The loop of Domains(): keeps, in order, the domains the filter matches.
RECURSIVE DomainsLoop(_, _, _)
DomainsLoop(filter, res, result) ==
    IF res = <<>> THEN result
    ELSE DomainsLoop(filter, Tail(res),
                     IF ~Match(filter, Head(res)) THEN result
                     ELSE Append(result, Head(res)))

\* Domains(): [err, domains, calls] given the service and the failing calls
Domains(filter, r, F) ==
    IF <<"GetDomains", "">> \in F
    THEN [ err |-> "GetDomains failed", domains |-> <<>>,
           calls |-> << [ call |-> "GetDomains", domain |-> "", records |-> <<>>, ok |-> FALSE ] >> ]
    ELSE [ err |-> "nil", domains |-> DomainsLoop(filter, RemoteDomainNames(r), <<>>),
           calls |-> << [ call |-> "GetDomains", domain |-> "", records |-> <<>>, ok |-> TRUE ] >> ]

\* ------------------------------------------------------- newShamanChanges

\* Record comparison that also compares the TTL
sameShamanDNSRecordWithTTL(left, right) ==
    left.Class = right.Class /\ left.Type = right.Type /\ left.Address = right.Address
    /\ left.TTL = right.TTL

sameShamanDNSRecord(left, right) ==
    left.Class = right.Class /\ left.Type = right.Type /\ left.Address = right.Address

\* endpoint.TTL.IsConfigured
IsConfigured(ttl) == ttl > 0

\* The TTL newShamanChanges gives the records of an endpoint.
RecordTTLOf(ep) ==
    uint8(IF IsConfigured(ep.RecordTTL) THEN ep.RecordTTL ELSE defaultShamanRecordTTL)

\* resourceRecordSet: one record per target of the endpoint, in target order
ResourceRecordSet(ep) ==
    [ i \in 1..Len(ep.Targets) |->
        [ TTL |-> RecordTTLOf(ep), Type |-> ep.RecordType,
          Address |-> ep.Targets[i], Class |-> defaultShamanRecordClass ] ]

\* groups[d][action]: the records of the endpoints of one list named d, in list order
RECURSIVE GroupRecords(_, _)
GroupRecords(endpoints, d) ==
    IF endpoints = <<>> THEN <<>>
    ELSE (IF Head(endpoints).DNSName = d THEN ResourceRecordSet(Head(endpoints)) ELSE <<>>)
         \o GroupRecords(Tail(endpoints), d)

\* The keys of the map groups: every DNSName of the three lists.
GroupNames(in) ==
    { e.DNSName : e \in Range(in.Create) \cup Range(in.UpdateNew) \cup Range(in.Delete) }

\* groups[d]: the three record lists of domain d
Groups(in, d) ==
    [ a \in { shamanCreate, shamanUpdate, shamanDelete } |->
        CASE a = shamanCreate -> GroupRecords(in.Create, d)
          [] a = shamanUpdate -> GroupRecords(in.UpdateNew, d)
          [] a = shamanDelete -> GroupRecords(in.Delete, d) ]

\* The three change sets one iteration of the loop over groups appends to
\* changes, in the order aorder in which the inner map is walked.
ChangeSetsOf(in, d, aorder) ==
    [ i \in 1..Len(aorder) |->
        [ Action |-> aorder[i],
          ResourceRecordSet |-> [ Domain |-> d, Records |-> Groups(in, d)[aorder[i]] ] ] ]

\* The loop over groups. changes is declared once, before the loop, and is
\* never reset: the change of the k-th domain walked carries the change sets
\* of the domains walked before it, in front of its own.
RECURSIVE ChangesLoop(_, _, _, _, _)
ChangesLoop(in, order, aorder, changes, changesResponse) ==
    IF order = <<>> THEN changesResponse
    ELSE LET d == Head(order)
             grown == changes \o ChangeSetsOf(in, d, aorder)
         IN ChangesLoop(in, Tail(order), aorder, grown,
                        Append(changesResponse, [ Domain |-> d, Changes |-> grown ]))

\* The order in which the inner map (action -> records) is walked. Every
\* domain contributes one change set per action, and submitChanges looks a
\* change set up by its action, so this order changes no result.
ActionOrder == << shamanCreate, shamanUpdate, shamanDelete >>

\* newShamanChanges(create, update, delete). Go walks the map groups in an
\* order it chooses: order is that order of the domains.
newShamanChanges(in, order) == ChangesLoop(in, order, ActionOrder, <<>>, <<>>)

\* ----------------------------------------------------------- submitChanges

\* "get X changes for domain": the records of the first change set of the
\* change with the action, none when there is no such change set.
RECURSIVE CurrentChangeSet(_, _)
CurrentChangeSet(changesets, action) ==
    IF changesets = <<>> THEN <<>>
    ELSE IF Head(changesets).Action = action
         THEN Head(changesets).ResourceRecordSet.Records
         ELSE CurrentChangeSet(Tail(changesets), action)

Exists(plannedRecords, ccs) ==
    \E i \in 1..Len(plannedRecords) : sameShamanDNSRecord(plannedRecords[i], ccs)

\* The create loop without the search for the record in the plan
RECURSIVE CreateStepAppendAll(_, _)
CreateStepAppendAll(plannedRecords, recs) ==
    IF recs = <<>> THEN plannedRecords
    ELSE CreateStepAppendAll(Append(plannedRecords, Head(recs)), Tail(recs))

\* "if records to create do not exist, then add them to plan"
RECURSIVE CreateStep(_, _)
CreateStep(plannedRecords, recs) ==
    IF recs = <<>> THEN plannedRecords
    ELSE CreateStep(IF Exists(plannedRecords, Head(recs)) THEN plannedRecords
                    ELSE Append(plannedRecords, Head(recs)),
                    Tail(recs))

\* One update record that is added to the plan when it matches no planned record
UpdateOneOrAppend(plannedRecords, ccs) ==
    IF \E i \in 1..Len(plannedRecords) : sameShamanDNSRecord(plannedRecords[i], ccs)
    THEN [ i \in 1..Len(plannedRecords) |->
             IF sameShamanDNSRecord(plannedRecords[i], ccs)
             THEN [ TTL |-> ccs.TTL, Class |-> ccs.Class, Type |-> ccs.Type, Address |-> ccs.Address ]
             ELSE plannedRecords[i] ]
    ELSE Append(plannedRecords, ccs)

\* One update record: every planned record it matches takes its four fields.
UpdateOne(plannedRecords, ccs) ==
    [ i \in 1..Len(plannedRecords) |->
        IF sameShamanDNSRecord(plannedRecords[i], ccs)
        THEN [ TTL |-> ccs.TTL, Class |-> ccs.Class, Type |-> ccs.Type, Address |-> ccs.Address ]
        ELSE plannedRecords[i] ]

\* "if records to update exist, then modify them in the plan"
RECURSIVE UpdateStep(_, _)
UpdateStep(plannedRecords, recs) ==
    IF recs = <<>> THEN plannedRecords
    ELSE UpdateStep(UpdateOne(plannedRecords, Head(recs)), Tail(recs))

\* idx of the delete loop: the last planned record the delete record matches, 0 for none
LastMatch(plannedRecords, ccs) ==
    LET hits == { i \in 1..Len(plannedRecords) : sameShamanDNSRecord(plannedRecords[i], ccs) }
    IN IF hits = {} THEN 0 ELSE CHOOSE i \in hits : \A j \in hits : j <= i

\* append(plannedRecords[:idx], plannedRecords[idx+1:]...)
RemoveAt(s, idx) == SubSeq(s, 1, idx - 1) \o SubSeq(s, idx + 1, Len(s))

\* One delete record: removes the planned record at idx, if there is one.
DeleteOne(plannedRecords, ccs) ==
    LET idx == LastMatch(plannedRecords, ccs)
    IN IF idx = 0 THEN plannedRecords ELSE RemoveAt(plannedRecords, idx)

\* the delete loop
RECURSIVE DeleteStep(_, _)
DeleteStep(plannedRecords, recs) ==
    IF recs = <<>> THEN plannedRecords
    ELSE DeleteStep(DeleteOne(plannedRecords, Head(recs)), Tail(recs))

\* "search the domain in domains"
Found(domains, d) == \E i \in 1..Len(domains) : domains[i] = d

\* plannedRecords before the changes of a domain are evaluated: the records
\* GetRecords returned when the domain was found, none otherwise
Seed(found, records) == IF found THEN records ELSE <<>>

\* The planning of one domain with the deletes applied first
PlanOfDeleteFirst(c, seed) ==
    LET createList == CurrentChangeSet(c.Changes, shamanCreate)
        updateList == CurrentChangeSet(c.Changes, shamanUpdate)
        deleteList == CurrentChangeSet(c.Changes, shamanDelete)
        afterDelete == DeleteStep(seed, deleteList)
        afterCreate == CreateStep(afterDelete, createList)
        afterUpdate == UpdateStep(afterCreate, updateList)
    IN [ Domain |-> c.Domain, seed |-> seed,
         createList |-> createList, updateList |-> updateList, deleteList |-> deleteList,
         afterCreate |-> afterCreate, afterUpdate |-> afterUpdate, Records |-> afterUpdate ]

\* One iteration of the planning loop after its read: the working list after
\* each of the three steps.
PlanOf(c, seed) ==
    LET createList == CurrentChangeSet(c.Changes, shamanCreate)
        updateList == CurrentChangeSet(c.Changes, shamanUpdate)
        deleteList == CurrentChangeSet(c.Changes, shamanDelete)
        afterCreate == CreateStep(seed, createList)
        afterUpdate == UpdateStep(afterCreate, updateList)
        afterDelete == DeleteStep(afterUpdate, deleteList)
    IN [ Domain |-> c.Domain, seed |-> seed,
         createList |-> createList, updateList |-> updateList, deleteList |-> deleteList,
         afterCreate |-> afterCreate, afterUpdate |-> afterUpdate, Records |-> afterDelete ]

Call(name, d, recs, ok) == [ call |-> name, domain |-> d, records |-> recs, ok |-> ok ]

\* The planning loop issuing the mutating call of a domain as soon as the
\* domain is planned
RECURSIVE PlanLoopApplyingAtOnce(_, _, _, _, _, _)
PlanLoopApplyingAtOnce(changes, domains, r, F, cs, ps) ==
    IF changes = <<>> THEN [ err |-> "nil", calls |-> cs, plans |-> ps ]
    ELSE LET c == Head(changes)
             found == Found(domains, c.Domain)
             pd == PlanOf(c, Seed(found, RemoteRecords(r, c.Domain)))
             read == IF found
                     THEN Append(cs, Call("GetRecords", c.Domain, RemoteRecords(r, c.Domain), TRUE))
                     ELSE cs
         IN IF found /\ <<"GetRecords", c.Domain>> \in F
            THEN [ err |-> "GetRecords failed",
                   calls |-> Append(cs, Call("GetRecords", c.Domain, <<>>, FALSE)),
                   plans |-> ps ]
            ELSE PlanLoopApplyingAtOnce(Tail(changes), domains, r, F,
                     Append(read, Call(IF Len(pd.Records) > 0 THEN "ReplaceDomainRecords"
                                       ELSE "DeleteDomain",
                                       pd.Domain, pd.Records, <<"Mutate", pd.Domain>> \notin F)),
                     Append(ps, pd))

\* The planning loop over changes: [err, calls, plans]; stops at the first
\* GetRecords that fails.
RECURSIVE PlanLoop(_, _, _, _, _, _)
PlanLoop(changes, domains, r, F, cs, ps) ==
    IF changes = <<>> THEN [ err |-> "nil", calls |-> cs, plans |-> ps ]
    ELSE LET c == Head(changes)
             found == Found(domains, c.Domain)
         IN IF found /\ <<"GetRecords", c.Domain>> \in F
            THEN [ err |-> "GetRecords failed",
                   calls |-> Append(cs, Call("GetRecords", c.Domain, <<>>, FALSE)),
                   plans |-> ps ]
            ELSE PlanLoop(Tail(changes), domains, r, F,
                          IF found
                          THEN Append(cs, Call("GetRecords", c.Domain, RemoteRecords(r, c.Domain), TRUE))
                          ELSE cs,
                          Append(ps, PlanOf(c, Seed(found, RemoteRecords(r, c.Domain)))))

\* One iteration of the apply loop: the mutating call for a planned domain.
ApplyCall(pd, F) ==
    IF Len(pd.Records) > 0
    THEN Call("ReplaceDomainRecords", pd.Domain, pd.Records, <<"Mutate", pd.Domain>> \notin F)
    ELSE Call("DeleteDomain", pd.Domain, <<>>, <<"Mutate", pd.Domain>> \notin F)

\* The apply loop stopping at the first mutating call that fails
RECURSIVE ApplyLoopAbortOnError(_, _, _)
ApplyLoopAbortOnError(plannedDomains, F, cs) ==
    IF plannedDomains = <<>> THEN cs
    ELSE LET c == ApplyCall(Head(plannedDomains), F)
         IN IF c.ok THEN ApplyLoopAbortOnError(Tail(plannedDomains), F, Append(cs, c))
            ELSE Append(cs, c)

\* "apply plan": the mutating calls, one per planned domain, errors only logged
RECURSIVE ApplyLoop(_, _, _)
ApplyLoop(plannedDomains, F, cs) ==
    IF plannedDomains = <<>> THEN cs
    ELSE ApplyLoop(Tail(plannedDomains), F, Append(cs, ApplyCall(Head(plannedDomains), F)))

\* The apply phase with the dry-run flag ignored
ApplyPhaseIgnoringDryRun(dry, planned, F) ==
    [ err |-> "nil", calls |-> ApplyLoop(planned.plans, F, planned.calls),
      plans |-> planned.plans ]

\* The apply phase returning the error of a mutating call that failed
ApplyPhaseSurfacingErrors(dry, planned, F) ==
    IF dry THEN [ err |-> "nil", calls |-> planned.calls, plans |-> planned.plans ]
    ELSE LET cs == ApplyLoop(planned.plans, F, planned.calls)
         IN [ err |-> IF \E i \in 1..Len(cs) : ~cs[i].ok THEN "Mutate failed" ELSE "nil",
              calls |-> cs, plans |-> planned.plans ]

\* What submitChanges does once the plan is complete.
ApplyPhase(dry, planned, F) ==
    IF dry THEN [ err |-> "nil", calls |-> planned.calls, plans |-> planned.plans ]
    ELSE [ err |-> "nil", calls |-> ApplyLoop(planned.plans, F, planned.calls),
           plans |-> planned.plans ]

\* submitChanges after its early return: the domain list, the plan, the apply phase
SubmitPlanned(filter, dry, changes, r, F) ==
    LET doms == Domains(filter, r, F)
    IN IF doms.err # "nil"
       THEN [ err |-> doms.err, calls |-> doms.calls, plans |-> <<>> ]
       ELSE LET planned == PlanLoop(changes, doms.domains, r, F, doms.calls, <<>>)
            IN IF planned.err # "nil" THEN planned
               ELSE ApplyPhase(dry, planned, F)

\* submitChanges without its early return for an empty change list
submitChangesNoEarlyReturn(filter, dry, changes, r, F) ==
    SubmitPlanned(filter, dry, changes, r, F)

\* submitChanges(ctx, changes): [err, calls, plans]
submitChanges(filter, dry, changes, r, F) ==
    IF Len(changes) = 0 THEN [ err |-> "nil", calls |-> <<>>, plans |-> <<>> ]
    ELSE SubmitPlanned(filter, dry, changes, r, F)

\* The service after the calls of one operation: every mutating call that
\* succeeded took effect, in order.
RECURSIVE RemoteAfter(_, _)
RemoteAfter(r, cs) ==
    IF cs = <<>> THEN r
    ELSE LET c == Head(cs)
         IN RemoteAfter(CASE c.ok /\ c.call = "ReplaceDomainRecords" -> RemoteReplace(r, c.domain, c.records)
                          [] c.ok /\ c.call = "DeleteDomain" -> RemoteDelete(r, c.domain)
                          [] OTHER -> r,
                        Tail(cs))

\* ----------------------------------------------------------------- Records

\* provider.SupportedRecordType of the host
SupportedRecordTypes == { "A", "CNAME", "SRV", "TXT" }

SupportedRecordType(t) == t \in SupportedRecordTypes

\* The first loop of shamanGroupByNameAndType: the supported records, in the
\* order of the answer. Every key of the map groups is domainRecords.Domain
\* followed by a type, so within one answer a group is known by its type.
SupportedRecords(domainRecords) ==
    SelectSeq(domainRecords.Records, LAMBDA r : SupportedRecordType(r.Type))

\* groups[domainRecords.Domain + t]
GroupOf(domainRecords, t) ==
    SelectSeq(SupportedRecords(domainRecords), LAMBDA r : r.Type = t)

\* the keys of groups
GroupKeys(domainRecords) ==
    { r.Type : r \in Range(SupportedRecords(domainRecords)) }

\* The endpoint of one group: the domain's name, the type and the TTL of
\* the group's first record, the addresses of its records in order.
GroupEndpoint(domainRecords, records) ==
    [ DNSName |-> domainRecords.Domain,
      RecordType |-> records[1].Type,
      Targets |-> [ i \in 1..Len(records) |-> records[i].Address ],
      RecordTTL |-> uint8(records[1].TTL) ]

\* The grouping with every record a group of its own
shamanGroupByNameAndTypeUngrouped(domainRecords, torder) ==
    LET recs == SupportedRecords(domainRecords)
    IN [ k \in 1..Len(recs) |-> GroupEndpoint(domainRecords, << recs[k] >>) ]

\* shamanGroupByNameAndType(domainRecords). Go walks the map groups in an
\* order it chooses: the keys are walked as they follow each other in torder.
shamanGroupByNameAndType(domainRecords, torder) ==
    LET keys == SelectSeq(torder, LAMBDA t : t \in GroupKeys(domainRecords))
    IN [ k \in 1..Len(keys) |-> GroupEndpoint(domainRecords, GroupOf(domainRecords, keys[k])) ]

\* GetRecords(domain) as the client answers it
DomainResponse(r, d) == [ Domain |-> d, Records |-> RemoteRecords(r, d) ]

\* The loop of Records() going on after a GetRecords that failed
RECURSIVE RecordsLoopSkippingFailures(_, _, _, _, _, _)
RecordsLoopSkippingFailures(domains, r, F, go, cs, eps) ==
    IF domains = <<>> THEN [ err |-> "nil", endpoints |-> eps, calls |-> cs ]
    ELSE LET domain == Head(domains)
         IN IF <<"GetRecords", domain>> \in F
            THEN RecordsLoopSkippingFailures(Tail(domains), r, F, go,
                     Append(cs, Call("GetRecords", domain, <<>>, FALSE)), eps)
            ELSE RecordsLoopSkippingFailures(Tail(domains), r, F, go,
                     Append(cs, Call("GetRecords", domain, RemoteRecords(r, domain), TRUE)),
                     eps \o shamanGroupByNameAndType(DomainResponse(r, domain), go[domain]))

\* The loop of Records() over the filtered domains: [err, endpoints, calls];
\* returns at the first GetRecords that fails, with no endpoint.
RECURSIVE RecordsLoop(_, _, _, _, _, _)
RecordsLoop(domains, r, F, go, cs, eps) ==
    IF domains = <<>> THEN [ err |-> "nil", endpoints |-> eps, calls |-> cs ]
    ELSE LET domain == Head(domains)
         IN IF <<"GetRecords", domain>> \in F
            THEN [ err |-> "GetRecords failed", endpoints |-> <<>>,
                   calls |-> Append(cs, Call("GetRecords", domain, <<>>, FALSE)) ]
            ELSE RecordsLoop(Tail(domains), r, F, go,
                     Append(cs, Call("GetRecords", domain, RemoteRecords(r, domain), TRUE)),
                     eps \o shamanGroupByNameAndType(DomainResponse(r, domain), go[domain]))

\* Records(ctx): [err, endpoints, calls]; go[d] is the order in which the
\* groups of domain d are walked.
Records(filter, r, F, go) ==
    LET doms == Domains(filter, r, F)
    IN IF doms.err # "nil"
       THEN [ err |-> doms.err, endpoints |-> <<>>, calls |-> doms.calls ]
       ELSE RecordsLoop(doms.domains, r, F, go, doms.calls, <<>>)

\* The record types the service holds
TypesOf(r) == UNION { { x.Type : x \in Range(r[i].Records) } : i \in 1..Len(r) }

\* ----------------------------------------------------------- the actions

\* Remote states before the provider ran: each domain absent, or present
\* with some records, in any order of the domains, at most MaxRemoteRecs
\* records in all.
RemoteLists == SeqsUpTo(RemoteRecs, MaxRemoteRecs)

RECURSIVE RecordCount(_)
RecordCount(r) == IF r = <<>> THEN 0 ELSE Len(Head(r).Records) + RecordCount(Tail(r))

InitRemotes ==
    UNION { UNION { { r \in { [ i \in 1..Len(o) |-> [ Domain |-> o[i], Records |-> f[o[i]] ] ] :
                              f \in [ D -> RemoteLists ] } : RecordCount(r) <= MaxRemoteRecs } :
                    o \in Perms(D) } : D \in SUBSET DomainNames }

\* The same for the records R and at most n records in all.
RemotesOf(R, n) ==
    UNION { UNION { { r \in { [ i \in 1..Len(o) |-> [ Domain |-> o[i], Records |-> f[o[i]] ] ] :
                              f \in [ D -> SeqsUpTo(R, n) ] } : RecordCount(r) <= n } :
                    o \in Perms(D) } : D \in SUBSET DomainNames }

\* The domain filters the provider is constructed with: none, or one that
\* matches one of the two domains (the other one is the mirror image).
Filters == { {}, { "d1" } }

Init ==
    /\ remote \in InitRemotes
    /\ domainFilter \in Filters
    /\ DryRun \in BOOLEAN
    /\ op = "none"
    /\ input = NoInput
    /\ before = remote
    /\ ret = [ err |-> "nil", domains |-> <<>> ]
    /\ calls = <<>>
    /\ plans = <<>>
    /\ combined = <<>>
    /\ returnedEndpoints = <<>>
    /\ file = NoFile
    /\ source = NoSource
    /\ ops = 0

\* p.Domains(ctx)
DomainsCall ==
    /\ ops < MaxOps
    /\ \E F \in FaultSets :
         LET res == Domains(domainFilter, remote, F)
         IN /\ op' = "Domains"
            /\ input' = NoInput
            /\ before' = remote
            /\ ret' = [ err |-> res.err, domains |-> res.domains ]
            /\ calls' = res.calls
            /\ plans' = <<>>
            /\ combined' = <<>>
            /\ returnedEndpoints' = <<>>
            /\ ops' = ops + 1
            /\ UNCHANGED << remote, domainFilter, DryRun, file, source >>

\* p.ApplyChanges(ctx, changes)
ApplyChanges ==
    /\ ops < MaxOps
    /\ \E in \in ChangeInputs, F \in FaultSets :
         \E order \in Perms(GroupNames(in)) :
           LET combinedChanges == newShamanChanges(in, order)
               res == submitChanges(domainFilter, DryRun, combinedChanges, remote, F)
           IN /\ op' = "ApplyChanges"
              /\ input' = in
              /\ before' = remote
              /\ ret' = [ err |-> res.err, domains |-> <<>> ]
              /\ calls' = res.calls
              /\ plans' = res.plans
              /\ combined' = combinedChanges
              /\ returnedEndpoints' = <<>>
              /\ remote' = RemoteAfter(remote, res.calls)
              /\ ops' = ops + 1
              /\ UNCHANGED << domainFilter, DryRun, file, source >>

\* p.Records(ctx)
RecordsCall ==
    /\ ops < MaxOps
    /\ \E F \in FaultSets, go \in [ DomainNames -> Perms(TypesOf(remote)) ] :
         LET res == Records(domainFilter, remote, F, go)
         IN /\ op' = "Records"
            /\ input' = NoInput
            /\ before' = remote
            /\ ret' = [ err |-> res.err, domains |-> <<>> ]
            /\ calls' = res.calls
            /\ plans' = <<>>
            /\ combined' = <<>>
            /\ returnedEndpoints' = res.endpoints
            /\ ops' = ops + 1
            /\ UNCHANGED << remote, domainFilter, DryRun, file, source >>

Next == DomainsCall \/ ApplyChanges \/ RecordsCall

Spec == Init /\ [][Next]_vars

\* --------------------------------------- newShamanChanges on its own

\* Endpoints for the conversion alone: more targets, and the TTLs around the
\* width of the record's TTL field.
ConvMaxTargets == 2
ConvMaxEndpoints == 2
ConvTTLs == { 0, 255, 300 }

ConvEndpoints ==
    [ DNSName : DomainNames, RecordType : RecordTypes,
      Targets : SeqsUpTo(Addresses, ConvMaxTargets), RecordTTL : ConvTTLs ]

InitChanges ==
    /\ remote = <<>>
    /\ domainFilter = {}
    /\ DryRun = FALSE
    /\ op = "none"
    /\ input \in InputsOf(ConvEndpoints, ConvMaxEndpoints)
    /\ before = <<>>
    /\ ret = [ err |-> "nil", domains |-> <<>> ]
    /\ calls = <<>>
    /\ plans = <<>>
    /\ combined = <<>>
    /\ returnedEndpoints = <<>>
    /\ file = NoFile
    /\ source = NoSource
    /\ ops = 0

\* newShamanChanges(changes.Create, changes.UpdateNew, changes.Delete)
Convert ==
    /\ op = "none"
    /\ \E order \in Perms(GroupNames(input)) :
         /\ op' = "newShamanChanges"
         /\ combined' = newShamanChanges(input, order)
         /\ UNCHANGED << remote, domainFilter, DryRun, input, before, ret, calls, plans, returnedEndpoints, file, source, ops >>

NextChanges == Convert

SpecChanges == InitChanges /\ [][NextChanges]_vars

\* ------------------------------------------------- Records on its own

\* Remote services for Records(): two types the host supports and one it
\* does not, two records of one type with different TTLs.
RecMaxRecs == 3      \* records of the remote service, over its domains

RecRemoteRecs ==
    { [TTL |-> 60, Class |-> "IN", Type |-> "A", Address |-> "x"],
      [TTL |-> 30, Class |-> "IN", Type |-> "A", Address |-> "y"],
      [TTL |-> 60, Class |-> "IN", Type |-> "TXT", Address |-> "x"],
      [TTL |-> 60, Class |-> "IN", Type |-> "MX", Address |-> "x"] }

InitRecords ==
    /\ remote \in RemotesOf(RecRemoteRecs, RecMaxRecs)
    /\ domainFilter \in Filters
    /\ DryRun = FALSE
    /\ op = "none"
    /\ input = NoInput
    /\ before = remote
    /\ ret = [ err |-> "nil", domains |-> <<>> ]
    /\ calls = <<>>
    /\ plans = <<>>
    /\ combined = <<>>
    /\ returnedEndpoints = <<>>
    /\ file = NoFile
    /\ source = NoSource
    /\ ops = 0

NextRecords == RecordsCall

SpecRecords == InitRecords /\ [][NextRecords]_vars

\* ------------------------------------------------------- the file source

MaxAddresses == 2    \* addresses of one record of the file
MaxFileRecords == 2  \* records of the file
MaxPolls == 2        \* calls of Endpoints() in one behaviour

FileDnsNames == { "", "a" }
FileAddresses == { "x", "y" }
DnsNameBases == { "", "b" }

\* endpoint.RecordTypeA
RecordTypeA == "A"

\* The member "dnsname" of a JSON object: not there, a number, a string
DnsNameFields ==
    { [ kind |-> "absent", value |-> "" ], [ kind |-> "number", value |-> "" ] }
    \cup { [ kind |-> "string", value |-> n ] : n \in FileDnsNames }

\* The member "addresses" of a JSON object: not there, a string, an array of strings
AddressesFields ==
    { [ kind |-> "absent", value |-> <<>> ], [ kind |-> "string", value |-> <<>> ] }
    \cup { [ kind |-> "array", value |-> l ] : l \in SeqsUpTo(FileAddresses, MaxAddresses) }

\* The elements of a JSON array: null, a number, an object
JsonItems ==
    { [ kind |-> k, dnsname |-> [ kind |-> "absent", value |-> "" ],
        addresses |-> [ kind |-> "absent", value |-> <<>> ] ] : k \in { "null", "number" } }
    \cup [ kind : { "object" }, dnsname : DnsNameFields, addresses : AddressesFields ]

\* The bytes of a file: none, white space only, no JSON text, or the JSON
\* text null, an object, or an array of at most n elements.
ContentsOf(n) ==
    { [ kind |-> k, items |-> <<>> ] : k \in { "empty", "blank", "syntax", "null", "object" } }
    \cup { [ kind |-> "array", items |-> its ] : its \in SeqsUpTo(JsonItems, n) }

\* What may be at the configured path: nothing, a directory, something that
\* cannot be examined, a file that cannot be opened, a file with its bytes.
FilesOf(n) ==
    { [ kind |-> k, content |-> NoContent ] : k \in { "absent", "dir", "noaccess", "unreadable" } }
    \cup { [ kind |-> "file", content |-> c ] : c \in ContentsOf(n) }

\* os.Stat(sourceFileName): [err, IsDir]
Stat(f) ==
    CASE f.kind = "absent" -> [ err |-> "ErrNotExist", IsDir |-> FALSE ]
      [] f.kind = "noaccess" -> [ err |-> "ErrPermission", IsDir |-> FALSE ]
      [] OTHER -> [ err |-> "nil", IsDir |-> f.kind = "dir" ]

\* os.IsNotExist(err)
IsNotExist(err) == err = "ErrNotExist"

\* &fileSource{dnsNameBase, fileName}
FileSource(fqdnTemplate, sourceFileName) ==
    [ nil |-> FALSE, dnsNameBase |-> fqdnTemplate, fileName |-> sourceFileName ]

\* NewFileSource(fqdnTemplate, sourceFileName): [source, err]. In the branch
\* of a directory err is the error of os.Stat, which is nil there.
NewFileSource(fqdnTemplate, sourceFileName, f) ==
    LET st == Stat(f)
    IN IF st.err = "nil"
       THEN IF st.IsDir THEN [ source |-> NoSource, err |-> st.err ]
            ELSE [ source |-> FileSource(fqdnTemplate, sourceFileName), err |-> "nil" ]
       ELSE IF IsNotExist(st.err) THEN [ source |-> NoSource, err |-> st.err ]
       ELSE [ source |-> NoSource, err |-> st.err ]

\* encoding/json on one element of the array, into a sourceEndpoint: null
\* and a missing member leave the zero value, a value of another type is an
\* UnmarshalTypeError.
DecodeItem(item) ==
    [ err |-> \/ item.kind = "number"
              \/ item.kind = "object" /\ item.dnsname.kind = "number"
              \/ item.kind = "object" /\ item.addresses.kind = "string",
      value |-> [ DnsName |-> IF item.kind = "object" /\ item.dnsname.kind = "string"
                              THEN item.dnsname.value ELSE "",
                  Addresses |-> IF item.kind = "object" /\ item.addresses.kind = "array"
                                THEN item.addresses.value ELSE <<>> ] ]

\* json.Unmarshal(data, &res) with res a sourceEndpoints: [err, res]
Unmarshal(data) ==
    CASE data.kind \in { "empty", "blank", "syntax" } -> [ err |-> "SyntaxError", res |-> <<>> ]
      [] data.kind = "object" -> [ err |-> "UnmarshalTypeError", res |-> <<>> ]
      [] data.kind = "null" -> [ err |-> "nil", res |-> <<>> ]
      [] data.kind = "array" ->
           LET d == [ i \in 1..Len(data.items) |-> DecodeItem(data.items[i]) ]
           IN [ err |-> IF \E i \in 1..Len(d) : d[i].err THEN "UnmarshalTypeError" ELSE "nil",
                res |-> [ i \in 1..Len(d) |-> d[i].value ] ]

\* readFileToStruct without the test of the length of data
readFileToStructNoLengthTest(fs, f) ==
    IF f.kind \in { "absent", "noaccess", "unreadable" }
    THEN [ res |-> <<>>, err |-> "open failed" ]
    ELSE IF f.kind = "dir"
    THEN [ res |-> <<>>, err |-> "read failed" ]
    ELSE LET u == Unmarshal(f.content)
         IN IF u.err # "nil" THEN [ res |-> <<>>, err |-> u.err ]
            ELSE [ res |-> u.res, err |-> "nil" ]

\* readFileToStruct(): [res, err]. os.Open fails when there is no file or
\* it may not be opened, ioutil.ReadAll fails on a directory.
readFileToStruct(fs, f) ==
    IF f.kind \in { "absent", "noaccess", "unreadable" }
    THEN [ res |-> <<>>, err |-> "open failed" ]
    ELSE IF f.kind = "dir"
    THEN [ res |-> <<>>, err |-> "read failed" ]
    ELSE IF f.content.kind = "empty"
    THEN [ res |-> <<>>, err |-> "nil" ]
    ELSE LET u == Unmarshal(f.content)
         IN IF u.err # "nil" THEN [ res |-> <<>>, err |-> u.err ]
            ELSE [ res |-> u.res, err |-> "nil" ]

\* &endpoint.Endpoint{}
EmptyEndpoint == [ DNSName |-> "", RecordType |-> "", Targets |-> <<>>, RecordTTL |-> 0 ]

\* endpoint.NewEndpoint(dnsName, recordType, targets...)
NewEndpoint(dnsName, recordType, targets) ==
    [ DNSName |-> dnsName, RecordType |-> recordType, Targets |-> targets, RecordTTL |-> 0 ]

\* The endpoint of one record of the file
EndpointOf(fs, v) ==
    LET dnsname == v.DnsName \o "." \o fs.dnsNameBase
    IN IF v.DnsName = "" \/ Len(v.Addresses) = 0 THEN EmptyEndpoint
       ELSE NewEndpoint(dnsname, RecordTypeA, v.Addresses)

\* generateEndpoints leaving out the records with empty values
generateEndpointsSkippingEmpty(fs, f) ==
    LET r == readFileToStruct(fs, f)
    IN IF r.err # "nil" THEN [ endpoints |-> <<>>, err |-> r.err ]
       ELSE LET full == SelectSeq(r.res, LAMBDA v : ~(v.DnsName = "" \/ Len(v.Addresses) = 0))
            IN [ endpoints |-> [ i \in 1..Len(full) |-> EndpointOf(fs, full[i]) ],
                 err |-> "nil" ]

\* generateEndpoints(): [endpoints, err]
generateEndpoints(fs, f) ==
    LET r == readFileToStruct(fs, f)
    IN IF r.err # "nil" THEN [ endpoints |-> <<>>, err |-> r.err ]
       ELSE [ endpoints |-> [ i \in 1..Len(r.res) |-> EndpointOf(fs, r.res[i]) ],
              err |-> "nil" ]

\* Endpoints() of the file source: [endpoints, err]
fileSourceEndpoints(fs, f) ==
    LET g == generateEndpoints(fs, f)
    IN IF g.err # "nil" THEN [ endpoints |-> <<>>, err |-> g.err ]
       ELSE [ endpoints |-> g.endpoints, err |-> "nil" ]

\* The path the source is configured with
SourceFileName == "endpoints.json"

InitFile ==
    /\ remote = <<>>
    /\ domainFilter = {}
    /\ DryRun = FALSE
    /\ op = "none"
    /\ input = NoInput
    /\ before = <<>>
    /\ ret = [ err |-> "nil", domains |-> <<>> ]
    /\ calls = <<>>
    /\ plans = <<>>
    /\ combined = <<>>
    /\ returnedEndpoints = <<>>
    /\ file \in FilesOf(MaxFileRecords)
    /\ source = NoSource
    /\ ops = 0

\* NewFileSource(fqdnTemplate, sourceFileName), once, at start
NewFileSourceCall ==
    /\ op = "none"
    /\ \E fqdnTemplate \in DnsNameBases :
         LET res == NewFileSource(fqdnTemplate, SourceFileName, file)
         IN /\ op' = "NewFileSource"
            /\ source' = res.source
            /\ ret' = [ err |-> res.err, domains |-> <<>> ]
            /\ UNCHANGED << remote, domainFilter, DryRun, input, before, calls, plans,
                            combined, returnedEndpoints, file, ops >>

\* fs.Endpoints(), one poll of the host
EndpointsCall ==
    /\ op \in { "NewFileSource", "Endpoints", "ChangeFile" }
    /\ ~source.nil
    /\ ops < MaxPolls
    /\ LET res == fileSourceEndpoints(source, file)
       IN /\ op' = "Endpoints"
          /\ ret' = [ err |-> res.err, domains |-> <<>> ]
          /\ returnedEndpoints' = res.endpoints
          /\ ops' = ops + 1
          /\ UNCHANGED << remote, domainFilter, DryRun, input, before, calls, plans,
                          combined, file, source >>

\* The environment replaces what is at the path between two polls.
ChangeFile ==
    /\ op = "Endpoints"
    /\ ~source.nil
    /\ ops < MaxPolls
    /\ file' \in FilesOf(MaxFileRecords) \ { file }
    /\ op' = "ChangeFile"
    /\ ret' = [ err |-> "nil", domains |-> <<>> ]
    /\ returnedEndpoints' = <<>>
    /\ UNCHANGED << remote, domainFilter, DryRun, input, before, calls, plans,
                    combined, source, ops >>

NextFile == NewFileSourceCall \/ EndpointsCall \/ ChangeFile

SpecFile == InitFile /\ [][NextFile]_vars

\* ------------------------------------------------ vocabulary of the claims

\* Record equality as the specification states it: type, class and address.
SameKey(a, b) == a.Type = b.Type /\ a.Class = b.Class /\ a.Address = b.Address

IsRead(c) == c.call \in { "GetDomains", "GetRecords" }
IsMutating(c) == c.call \in { "ReplaceDomainRecords", "DeleteDomain" }

Reads(cs) == SelectSeq(cs, IsRead)
Mutating(cs) == SelectSeq(cs, IsMutating)

\* The domain names of the three lists of the call.
InputDomains ==
    { input.Create[i].DNSName : i \in 1..Len(input.Create) }
    \cup { input.UpdateNew[i].DNSName : i \in 1..Len(input.UpdateNew) }
    \cup { input.Delete[i].DNSName : i \in 1..Len(input.Delete) }

RECURSIVE Flatten(_)
Flatten(ss) == IF ss = <<>> THEN <<>> ELSE Head(ss) \o Flatten(Tail(ss))

\* The records converted from the endpoints of a list whose DNSName is d.
OwnRecords(list, d) ==
    LET own == SelectSeq(list, LAMBDA e : e.DNSName = d)
    IN Flatten([ i \in 1..Len(own) |-> ResourceRecordSet(own[i]) ])

\* The fault points of the calls that failed.
FailedOf(cs) ==
    { IF cs[i].call = "GetDomains" THEN <<"GetDomains", "">>
      ELSE IF cs[i].call = "GetRecords" THEN <<"GetRecords", cs[i].domain>>
      ELSE <<"Mutate", cs[i].domain>> : i \in { j \in 1..Len(cs) : ~cs[j].ok } }

\* ------------------------------------------------------------------- C1

\* C1 (as claimed): in ApplyChanges, the create, update and delete record
\* lists applied to a domain are exactly the records converted from the
\* endpoints whose DNSName is that domain, however many domains the call
\* names and in whatever order they are processed.
C1_ListsOfOwnDomain ==
    op = "ApplyChanges" =>
        \A k \in 1..Len(plans) :
            /\ plans[k].createList = OwnRecords(input.Create, plans[k].Domain)
            /\ plans[k].updateList = OwnRecords(input.UpdateNew, plans[k].Domain)
            /\ plans[k].deleteList = OwnRecords(input.Delete, plans[k].Domain)

\* ------------------------------------------------------------------- C2

\* C2: ApplyChanges with empty create, updateNew and delete lists returns
\* no error and issues no remote call, whatever the remote state, the
\* domain filter and the dry-run flag are.
C2_EmptyChangesNoCalls ==
    (op = "ApplyChanges" /\ input = NoInput) =>
        /\ ret.err = "nil"
        /\ calls = <<>>
        /\ remote = before

C2_Witness ==
    /\ op = "ApplyChanges"
    /\ input = NoInput
    /\ ~DryRun
    /\ domainFilter # {}
    /\ Len(before) = 2

\* ------------------------------------------------------------------- C3

\* C3: with DryRun set, ApplyChanges issues no mutating remote call and the
\* remote state is left as it was; its planning reads, and the plan, are
\* those of the same call (same service, same failing reads) with DryRun
\* unset.
C3_DryRunNoMutation ==
    (op = "ApplyChanges" /\ DryRun) =>
        /\ \A i \in 1..Len(calls) : IsRead(calls[i])
        /\ remote = before
        /\ LET wet == submitChanges(domainFilter, FALSE, combined, before, FailedOf(calls))
           IN /\ calls = Reads(wet.calls)
              /\ plans = wet.plans

C3_Witness ==
    /\ op = "ApplyChanges"
    /\ DryRun
    /\ \E i \in 1..Len(calls) : calls[i].call = "GetRecords" /\ calls[i].ok
    /\ \E k \in 1..Len(plans) : plans[k].Records # plans[k].seed

\* ------------------------------------------------------------------- C4

\* C4: with DryRun unset and every planning read succeeding, ApplyChanges
\* issues exactly one mutating call for every domain name of its lists and
\* none for another domain: ReplaceDomainRecords with the whole resulting
\* record list when that list is not empty, DeleteDomain when it is empty
\* (never ReplaceDomainRecords with an empty list), also after the call for
\* an earlier domain failed. A call that creates one endpoint with one
\* target on a domain without records issues one ReplaceDomainRecords with
\* one record; a call that deletes the only record of a domain issues
\* DeleteDomain.
C4_OneMutatingCallPerDomain ==
    (op = "ApplyChanges" /\ ~DryRun /\ \A i \in 1..Len(calls) : IsRead(calls[i]) => calls[i].ok) =>
        LET m == Mutating(calls)
        IN /\ \A d \in InputDomains : Cardinality({ i \in 1..Len(m) : m[i].domain = d }) = 1
           /\ \A i \in 1..Len(m) : m[i].domain \in InputDomains
           /\ \A i \in 1..Len(m) :
                \E k \in 1..Len(plans) :
                    /\ plans[k].Domain = m[i].domain
                    /\ IF plans[k].Records # <<>>
                       THEN m[i].call = "ReplaceDomainRecords" /\ m[i].records = plans[k].Records
                       ELSE m[i].call = "DeleteDomain"
           /\ \A i \in 1..Len(m) : m[i].call = "ReplaceDomainRecords" => m[i].records # <<>>
           /\ ( /\ Len(input.Create) = 1 /\ input.UpdateNew = <<>> /\ input.Delete = <<>>
                /\ Len(input.Create[1].Targets) = 1
                /\ RemoteRecords(before, input.Create[1].DNSName) = <<>> )
              => /\ Len(m) = 1
                 /\ m[1].call = "ReplaceDomainRecords"
                 /\ m[1].domain = input.Create[1].DNSName
                 /\ Len(m[1].records) = 1
                 /\ m[1].records[1].Type = input.Create[1].RecordType
                 /\ m[1].records[1].Address = input.Create[1].Targets[1]
           /\ ( /\ input.Create = <<>> /\ input.UpdateNew = <<>> /\ Len(input.Delete) = 1
                /\ Len(input.Delete[1].Targets) = 1
                /\ Len(RemoteRecords(before, input.Delete[1].DNSName)) = 1
                /\ SameKey(RemoteRecords(before, input.Delete[1].DNSName)[1],
                           [ Type |-> input.Delete[1].RecordType, Class |-> "IN",
                             Address |-> input.Delete[1].Targets[1] ]) )
              => /\ Len(m) = 1
                 /\ m[1].call = "DeleteDomain"
                 /\ m[1].domain = input.Delete[1].DNSName

C4_Witness ==
    /\ op = "ApplyChanges"
    /\ ~DryRun
    /\ LET m == Mutating(calls)
       IN /\ Len(m) = 2
          /\ ~m[1].ok
          /\ m[1].call = "ReplaceDomainRecords"
          /\ m[2].call = "DeleteDomain"

\* ------------------------------------------------------------------- C5

\* C5: ApplyChanges returns nil whenever the domain list fetch and every
\* record fetch of its planning succeed: a create of a record that exists,
\* an update or delete of a record that does not, and a failing
\* ReplaceDomainRecords or DeleteDomain are never returned as an error.
C5_ApplyPhaseReturnsNil ==
    (op = "ApplyChanges" /\ \A i \in 1..Len(calls) : IsRead(calls[i]) => calls[i].ok) =>
        ret.err = "nil"

C5_Witness ==
    /\ op = "ApplyChanges"
    /\ ret.err = "nil"
    /\ \E i \in 1..Len(calls) : IsMutating(calls[i]) /\ ~calls[i].ok
    /\ \E k \in 1..Len(plans) :
         /\ plans[k].createList # <<>> /\ plans[k].afterCreate = plans[k].seed
         /\ plans[k].deleteList # <<>> /\ plans[k].Records = plans[k].afterUpdate

\* ------------------------------------------------------------------- C6

\* C6 (as claimed): for every domain of the change set that exists on the
\* remote service the working list is seeded with all its current remote
\* records, and it starts empty only for a domain that does not exist
\* there, for every configuration of the domain filter.
C6_SeededFromRemote ==
    op = "ApplyChanges" =>
        \A k \in 1..Len(plans) :
            plans[k].seed = IF RemoteHas(before, plans[k].Domain)
                            THEN RemoteRecords(before, plans[k].Domain)
                            ELSE <<>>

\* ------------------------------------------------------------------- C7

NoDupKeys(list) ==
    \A i, j \in 1..Len(list) : i # j => ~SameKey(list[i], list[j])

NoneMatches(list, dels) ==
    \A i \in 1..Len(dels) : \A j \in 1..Len(list) : ~SameKey(list[j], dels[i])

\* C7 (as claimed): after the delete step the resulting record list of a
\* domain holds no record matching (type, class, address) a record of the
\* delete list, whatever the domain's current remote records are, several
\* remote records of the same type, class and address included.
C7_NoDeletedRecordLeft ==
    op = "ApplyChanges" =>
        \A k \in 1..Len(plans) : NoneMatches(plans[k].Records, plans[k].deleteList)

\* C7 (amended): the same, provided the domain's current remote records
\* hold no two records of the same type, class and address (a delete record
\* removes one matching record only); this holds also when a record is in
\* both the create and the delete list, and a delete list that matches
\* nothing leaves the working list unchanged.
C7_NoDeletedRecordLeftWithoutDuplicates ==
    op = "ApplyChanges" =>
        \A k \in 1..Len(plans) :
            /\ NoDupKeys(RemoteRecords(before, plans[k].Domain))
                 => NoneMatches(plans[k].Records, plans[k].deleteList)
            /\ NoneMatches(plans[k].afterUpdate, plans[k].deleteList)
                 => plans[k].Records = plans[k].afterUpdate

C7_Witness ==
    /\ op = "ApplyChanges"
    /\ \E k \in 1..Len(plans) :
         /\ plans[k].seed = <<>>
         /\ Len(plans[k].createList) = 1
         /\ Len(plans[k].deleteList) = 1
         /\ SameKey(plans[k].createList[1], plans[k].deleteList[1])
         /\ Len(plans[k].afterUpdate) = 1
         /\ plans[k].Records = <<>>

\* ------------------------------------------------------------------- C8

\* The k-th smallest element of the set I of numbers.
KthOf(I, k) == CHOOSE i \in I : Cardinality({ j \in I : j <= i }) = k

\* The records of list at the positions I, in list order.
Pick(list, I) == [ k \in 1..Cardinality(I) |-> list[KthOf(I, k)] ]

\* C8: the create step keeps the working list as it is, in order, and
\* appends the records of the create list it is given for the domain, in
\* list order, each exactly when no record of the same type, class and
\* address is in the working list already, one appended earlier in the step
\* included: a record equal to an existing one is never duplicated.
C8_CreateAppendsNewOnly ==
    op = "ApplyChanges" =>
        \A k \in 1..Len(plans) :
            LET seed == plans[k].seed
                cl == plans[k].createList
                new == { i \in 1..Len(cl) :
                           /\ \A j \in 1..Len(seed) : ~SameKey(seed[j], cl[i])
                           /\ \A j \in 1..(i - 1) : ~SameKey(cl[j], cl[i]) }
            IN plans[k].afterCreate = seed \o Pick(cl, new)

C8_Witness ==
    /\ op = "ApplyChanges"
    /\ \E k \in 1..Len(plans) :
         /\ plans[k].seed # <<>>
         /\ Len(plans[k].createList) = 2
         /\ SameKey(plans[k].createList[1], plans[k].createList[2])
         /\ Len(plans[k].afterCreate) = Len(plans[k].seed) + 1

\* ------------------------------------------------------------------- C9

\* The records the claim gives an endpoint: one per target, in target
\* order, with the endpoint's TTL when it is configured and 60 when not.
ClaimedRecords(ep) ==
    [ i \in 1..Len(ep.Targets) |->
        [ TTL |-> IF IsConfigured(ep.RecordTTL) THEN ep.RecordTTL ELSE 60,
          Type |-> ep.RecordType, Address |-> ep.Targets[i], Class |-> "IN" ] ]

ClaimedGroup(list, d) ==
    LET own == SelectSeq(list, LAMBDA e : e.DNSName = d)
    IN Flatten([ i \in 1..Len(own) |-> ClaimedRecords(own[i]) ])

InputList(action) ==
    CASE action = "CREATE" -> input.Create
      [] action = "UPDATE" -> input.UpdateNew
      [] action = "DELETE" -> input.Delete

\* C9 (as claimed): newShamanChanges converts every endpoint into one
\* record per target, in target order, with the endpoint's type, the target
\* as address, class "IN", and the endpoint's TTL when configured, 60 when
\* not, for every TTL an endpoint can carry.
C9_RecordPerTargetWithEndpointTTL ==
    op = "newShamanChanges" =>
        \A k \in 1..Len(combined) :
            \A m \in 1..Len(combined[k].Changes) :
                LET cs == combined[k].Changes[m]
                IN cs.ResourceRecordSet.Records
                     = ClaimedGroup(InputList(cs.Action), cs.ResourceRecordSet.Domain)

\* C9, for the endpoints whose TTL fits the 8 bits of the record's TTL
\* field: the conversion is as claimed.
C9_WithinTTLWidth ==
    (op = "newShamanChanges"
     /\ \A a \in { "CREATE", "UPDATE", "DELETE" } :
          \A i \in 1..Len(InputList(a)) : InputList(a)[i].RecordTTL < 2 ^ TTLBits)
    => C9_RecordPerTargetWithEndpointTTL

\* ------------------------------------------------------------------ C10

\* C10: Domains() returns the remote domains the domain filter matches, one
\* per occurrence and in the order of the remote service's answer; when
\* GetDomains fails it returns the error and no domain.
C10_DomainsFilteredInOrder ==
    op = "Domains" =>
        /\ Len(calls) = 1
        /\ calls[1].call = "GetDomains"
        /\ IF calls[1].ok
           THEN /\ ret.err = "nil"
                /\ ret.domains = SelectSeq(RemoteDomainNames(before),
                                           LAMBDA d : domainFilter = {} \/ d \in domainFilter)
           ELSE /\ ret.err # "nil"
                /\ ret.domains = <<>>

C10_Witness ==
    /\ op = "Domains"
    /\ calls[1].ok
    /\ Len(before) = 2
    /\ before[1].Domain = "d2"
    /\ ret.domains = << "d1" >>

\* ------------------------------------------------------------------ C11

\* The domains of the service the filter matches, in the service's order.
FilteredDomains ==
    SelectSeq(RemoteDomainNames(before), LAMBDA d : domainFilter = {} \/ d \in domainFilter)

\* The records of type t the service holds for domain d, in remote order.
RecordsOfType(d, t) == SelectSeq(RemoteRecords(before, d), LAMBDA x : x.Type = t)

\* What Records() returned is one endpoint for every (domain, type) pair
\* of P and nothing else: name the domain, type the type, TTL the TTL of the
\* first record of the pair, targets the addresses of its records in remote
\* order.
OneEndpointPerPair(P) ==
    /\ \A p \in P :
         Cardinality({ i \in 1..Len(returnedEndpoints) :
                         /\ returnedEndpoints[i].DNSName = p[1]
                         /\ returnedEndpoints[i].RecordType = p[2] }) = 1
    /\ \A i \in 1..Len(returnedEndpoints) :
         LET e == returnedEndpoints[i]
             g == RecordsOfType(e.DNSName, e.RecordType)
         IN /\ << e.DNSName, e.RecordType >> \in P
            /\ e.RecordTTL = g[1].TTL
            /\ e.Targets = [ j \in 1..Len(g) |-> g[j].Address ]

\* The (domain, type) pairs among the records of the filtered domains.
PairsPresent ==
    UNION { { << before[i].Domain, x.Type >> : x \in Range(before[i].Records) } :
            i \in { j \in 1..Len(before) : before[j].Domain \in Range(FilteredDomains) } }

\* C11 (as claimed): Records() returns exactly one endpoint per distinct
\* (domain, record type) pair present among the records of all filtered
\* domains, with the domain as name, the group's type, the TTL of the
\* group's first record and the addresses of the group in remote order; no
\* pair present in the remote records is missing and none appears twice.
C11_OneEndpointPerDomainAndType ==
    (op = "Records" /\ ret.err = "nil") => OneEndpointPerPair(PairsPresent)

\* C11 (amended): the same for the pairs whose record type the host
\* supports (A, CNAME, SRV, TXT); records of another type are skipped and
\* give no endpoint.
C11_OneEndpointPerDomainAndSupportedType ==
    (op = "Records" /\ ret.err = "nil") =>
        OneEndpointPerPair({ p \in PairsPresent : p[2] \in { "A", "CNAME", "SRV", "TXT" } })

C11_Witness ==
    /\ op = "Records"
    /\ ret.err = "nil"
    /\ \E p \in PairsPresent : p[2] = "MX"
    /\ \E i \in 1..Len(returnedEndpoints) :
         /\ returnedEndpoints[i].Targets = << "y", "x" >>
         /\ returnedEndpoints[i].RecordTTL = 30

\* ------------------------------------------------------------------ C12

\* C12: Records() aborts on the first remote error. Its calls are
\* GetDomains and then GetRecords for the filtered domains in order; when
\* GetDomains or a GetRecords fails, that call is its last one (no
\* GetRecords for a later domain), it returns the error and no endpoint
\* at all, those of the domains fetched before the failure included; it
\* never issues a mutating call; with no failure it returns no error and
\* has fetched every filtered domain once.
C12_RecordsAbortsOnFirstError ==
    op = "Records" =>
        /\ Len(calls) >= 1
        /\ calls[1].call = "GetDomains"
        /\ \A i \in 2..Len(calls) :
             /\ calls[i].call = "GetRecords"
             /\ calls[1].ok
             /\ i - 1 <= Len(FilteredDomains)
             /\ calls[i].domain = FilteredDomains[i - 1]
        /\ \A i \in 1..(Len(calls) - 1) : calls[i].ok
        /\ remote = before
        /\ IF calls[Len(calls)].ok
           THEN /\ ret.err = "nil"
                /\ Len(calls) = 1 + Len(FilteredDomains)
           ELSE /\ ret.err # "nil"
                /\ returnedEndpoints = <<>>

C12_Witness ==
    /\ op = "Records"
    /\ Len(calls) = 3
    /\ calls[2].ok
    /\ \E i \in 1..Len(calls[2].records) : calls[2].records[i].Type = "A"
    /\ ~calls[3].ok
    /\ ret.err # "nil"
    /\ returnedEndpoints = <<>>

\* ------------------------------------------------------------------ C13

\* C13 (as claimed): NewFileSource returns an error and no source when the
\* configured path does not exist, when it is a directory and when it
\* cannot be examined; it returns a source and no error only when the path
\* is an existing file that is no directory.
C13_ConstructionErrors ==
    op = "NewFileSource" =>
        IF file.kind \in { "absent", "dir", "noaccess" }
        THEN ret.err # "nil" /\ source.nil
        ELSE ret.err = "nil" /\ ~source.nil

\* C13, without the directory: a missing path and a path that cannot be
\* examined give an error and no source, a file gives a source and no error.
C13_ExceptDirectory ==
    (op = "NewFileSource" /\ file.kind # "dir") => C13_ConstructionErrors

\* ------------------------------------------------------------------ C14

\* A JSON element the decoder accepts as a record: null, or an object whose
\* dnsname, if there, is a string and whose addresses, if there, is an array
\* of strings.
ValidItem(it) ==
    \/ it.kind = "null"
    \/ /\ it.kind = "object"
       /\ it.dnsname.kind \in { "absent", "string" }
       /\ it.addresses.kind \in { "absent", "array" }

\* Valid JSON of the expected shape: an array of records (or null).
ValidJson(c) ==
    \/ c.kind = "null"
    \/ c.kind = "array" /\ \A i \in 1..Len(c.items) : ValidItem(c.items[i])

\* The name and the address list a record states.
RecordName(it) ==
    IF it.kind = "object" /\ it.dnsname.kind = "string" THEN it.dnsname.value ELSE ""

RecordAddresses(it) ==
    IF it.kind = "object" /\ it.addresses.kind = "array" THEN it.addresses.value ELSE <<>>

\* C14: for every valid input file Endpoints() returns no error and one
\* endpoint per JSON record, at the position of the record: for a record
\* with a name and addresses an endpoint of type A named
\* name + "." + base whose targets are the addresses in order, for a record
\* with an empty name or no address a placeholder with an empty name and no
\* target; the result is as long as the file has records.
C14_OneEndpointPerRecord ==
    (op = "Endpoints" /\ file.kind = "file"
     /\ (file.content.kind = "empty" \/ ValidJson(file.content))) =>
        /\ ret.err = "nil"
        /\ Len(returnedEndpoints) = Len(file.content.items)
        /\ \A i \in 1..Len(file.content.items) :
             LET it == file.content.items[i]
                 e == returnedEndpoints[i]
             IN IF RecordName(it) # "" /\ RecordAddresses(it) # <<>>
                THEN /\ e.DNSName = RecordName(it) \o "." \o source.dnsNameBase
                     /\ e.RecordType = "A"
                     /\ e.Targets = RecordAddresses(it)
                ELSE /\ e.DNSName = ""
                     /\ e.Targets = <<>>

C14_Witness ==
    /\ op = "Endpoints"
    /\ ret.err = "nil"
    /\ Len(file.content.items) = 2
    /\ RecordName(file.content.items[1]) = "a"
    /\ RecordAddresses(file.content.items[1]) = <<>>
    /\ Len(returnedEndpoints) = 2
    /\ returnedEndpoints[1].DNSName = ""
    /\ returnedEndpoints[2].DNSName = "a.b"
    /\ returnedEndpoints[2].Targets = << "y", "x" >>

\* ------------------------------------------------------------------ C15

\* C15: Endpoints() returns an error exactly when the file cannot be
\* opened or read or its content is not empty and is not valid JSON of the
\* expected shape, and then it returns an empty endpoint list with it; for
\* a file of length zero it returns an empty list and no error. This is so
\* at every poll, whatever was at the path at the polls before.
C15_ErrorExactlyWhenUnreadableOrMalformed ==
    op = "Endpoints" =>
        LET unreadable == file.kind # "file"
            malformed == file.kind = "file" /\ file.content.kind # "empty"
                         /\ ~ValidJson(file.content)
        IN /\ (ret.err # "nil") <=> (unreadable \/ malformed)
           /\ ret.err # "nil" => returnedEndpoints = <<>>
           /\ (file.kind = "file" /\ file.content.kind = "empty")
                => (ret.err = "nil" /\ returnedEndpoints = <<>>)

C15_Witness ==
    /\ op = "Endpoints"
    /\ ops = 2
    /\ file.kind = "file"
    /\ file.content.kind = "empty"
    /\ ret.err = "nil"
    /\ returnedEndpoints = <<>>

\* ------------------------------------------------------------------ C16

\* C16: in every ApplyChanges call all remote reads (GetDomains, then the
\* GetRecords of the planning) come before the first mutating call; when a
\* read fails ApplyChanges returns an error, has issued no mutating call for
\* any domain, the domains planned before the failure included, and the
\* remote service is as it was.
C16_ReadsBeforeWrites ==
    op = "ApplyChanges" =>
        /\ \A i, j \in 1..Len(calls) : (i < j /\ IsMutating(calls[i])) => IsMutating(calls[j])
        /\ calls # <<>> => calls[1].call = "GetDomains"
        /\ (\E i \in 1..Len(calls) : IsRead(calls[i]) /\ ~calls[i].ok) =>
             /\ ret.err # "nil"
             /\ Mutating(calls) = <<>>
             /\ remote = before

C16_Witness ==
    /\ op = "ApplyChanges"
    /\ ~DryRun
    /\ Len(plans) = 1
    /\ plans[1].Records # plans[1].seed
    /\ Len(calls) = 3
    /\ calls[3].call = "GetRecords"
    /\ ~calls[3].ok
    /\ ret.err # "nil"

\* ------------------------------------------------------------------ C17

\* The last record of list with the type, class and address of x, 0 for none.
LastSameKey(list, x) ==
    LET hits == { j \in 1..Len(list) : SameKey(list[j], x) }
    IN IF hits = {} THEN 0 ELSE CHOOSE j \in hits : \A h \in hits : h <= j

\* C17: the update step of ApplyChanges leaves the length and the order of
\* the working list and the type, class and address at every position as
\* they are; a record that matches a record of the update list (the one
\* the step reads for the domain) gets the TTL of that update record (of
\* the last one, if several match), every other record keeps its TTL. An
\* update record that matches no record changes nothing and gives no
\* error.
C17_UpdateChangesOnlyTTL ==
    op = "ApplyChanges" =>
        \A k \in 1..Len(plans) :
            LET a == plans[k].afterCreate
                b == plans[k].afterUpdate
                ul == plans[k].updateList
            IN /\ Len(b) = Len(a)
               /\ \A i \in 1..Len(a) :
                    /\ SameKey(a[i], b[i])
                    /\ b[i].TTL = IF LastSameKey(ul, a[i]) = 0 THEN a[i].TTL
                                  ELSE ul[LastSameKey(ul, a[i])].TTL
               /\ (\A j \in 1..Len(ul) : LastSameKey(a, ul[j]) = 0) => b = a
               /\ (\A i \in 1..Len(calls) : IsRead(calls[i]) => calls[i].ok) => ret.err = "nil"

C17_Witness ==
    /\ op = "ApplyChanges"
    /\ ret.err = "nil"
    /\ \E k \in 1..Len(plans) :
         /\ Len(plans[k].updateList) = 2
         /\ LastSameKey(plans[k].afterCreate, plans[k].updateList[2]) = 0
         /\ Len(plans[k].afterCreate) = 1
         /\ SameKey(plans[k].afterCreate[1], plans[k].updateList[1])
         /\ plans[k].afterCreate[1].TTL = 30
         /\ plans[k].afterUpdate[1].TTL = 60

\* ------------------------------------------------------------------ C18

\* C18: when the current remote records of a domain hold no two records of
\* the same type, class and address, neither does the record list
\* ApplyChanges plans and submits for the domain, for any create, updateNew
\* and delete lists, a create list repeating a record included; each of the
\* create, update and delete steps gives a list without such a pair when it
\* is given one.
C18_NoDuplicateRecords ==
    op = "ApplyChanges" =>
        /\ \A k \in 1..Len(plans) :
             /\ NoDupKeys(RemoteRecords(before, plans[k].Domain)) =>
                  /\ NoDupKeys(plans[k].Records)
                  /\ \A i \in 1..Len(calls) :
                       (calls[i].call = "ReplaceDomainRecords" /\ calls[i].domain = plans[k].Domain)
                         => NoDupKeys(calls[i].records)
             /\ NoDupKeys(plans[k].seed) => NoDupKeys(plans[k].afterCreate)
             /\ NoDupKeys(plans[k].afterCreate) => NoDupKeys(plans[k].afterUpdate)
             /\ NoDupKeys(plans[k].afterUpdate) => NoDupKeys(plans[k].Records)

C18_Witness ==
    /\ op = "ApplyChanges"
    /\ \E k \in 1..Len(plans) :
         /\ Len(plans[k].seed) = 1
         /\ Len(plans[k].createList) = 2
         /\ SameKey(plans[k].createList[1], plans[k].createList[2])
         /\ ~SameKey(plans[k].createList[1], plans[k].seed[1])
         /\ Len(plans[k].Records) = 2
         /\ \E i \in 1..Len(calls) :
              /\ calls[i].call = "ReplaceDomainRecords"
              /\ calls[i].ok
              /\ calls[i].records = plans[k].Records

====
